---------------------------- MODULE Spec2Model ----------------------------
(***************************************************************************)
(* A model of the four HTTP servers of the repository:                     *)
(*   "bridge"   src/server.js              POST /sse relay to the upstream *)
(*   "query"    src/unnamed/part_000:1-78  REST client wc + SSE endpoint   *)
(*   "minimal"  src/unnamed/part_000:80-135 ping/time + probe routes + SSE *)
(*   "product"  src/unnamed/part_001       wcGet/wcPut + config check      *)
(* Every inbound HTTP request occupies one slot r of Reqs.                 *)
(***************************************************************************)
EXTENDS Integers, Sequences, FiniteSets, TLC

VARIABLES
  variant,   \* which of the four programs runs
  env,       \* names of the environment values that are set
  phase,     \* "starting" | "listening" | "exited"
  pc,        \* pc[r]: position of the handler of request r
  req,       \* req[r]: the inbound request (method, path, body)
  res,       \* res[r]: the client response object of request r
  up,        \* up[r]: the upstream fetch / body stream of request r
  client,    \* client[r]: TRUE while the client of r is still connected
  unhandled, \* requests whose handler left a rejection unhandled
  transport, \* the transport the shared McpServer is bound to (0: none)
  registry,  \* names of the tools registered on the McpServer
  tool       \* the tool invocation in flight

vars == <<variant, env, phase, pc, req, res, up, client, unhandled, transport,
          registry, tool>>

Reqs == {1, 2}

\* The request slot followed through every input of the relay.
Solo == {1}

\* The longest chunk sequence an upstream stream emits in the model.
MaxChunks == 3

Chunks == {"a", "b"}

Methods == {"GET", "POST", "OPTIONS", "PUT"}

SsePath   == <<"sse">>
RootPath  == <<>>
Paths == {SsePath, RootPath, <<"health">>, <<".well-known", "x">>, <<"other">>}

\* Request bodies: absent, JSON with an id, JSON without an id, malformed JSON.
Bodies == {"none", "withId", "noId", "bad"}

UpStatuses == {200, 502}

-----------------------------------------------------------------------------
(* The response object (Node's ServerResponse as Express extends it).      *)

NewRes == [status |-> 200, ctype |-> "", headersSent |-> FALSE, ended |-> FALSE,
           written |-> <<>>, payload |-> <<>>, threw |-> FALSE]

NoReq == [method |-> "", path |-> <<>>, body |-> "none"]

NoUp == [state |-> "none", status |-> 0, emitted |-> <<>>, read |-> 0, calls |-> 0]

\* res.status(code)
ResStatus(rs, code) == [rs EXCEPT !.status = code]

\* res.setHeader("Content-Type", ct)
ResSetType(rs, ct) == [rs EXCEPT !.ctype = ct]

\* res.end(): flushes the head and finishes; a no-op on a finished response.
ResEnd(rs) ==
  IF rs.ended THEN rs
  ELSE [rs EXCEPT !.headersSent = TRUE, !.ended = TRUE]

\* res.write(chunk): flushes the head and appends the chunk to the body.
ResWrite(rs, chunk) ==
  [rs EXCEPT !.headersSent = TRUE, !.written = Append(@, chunk)]

\* res.json(obj): Content-Type defaults to JSON unless set, body sent, ended.
\* Setting a header once the head is sent throws ERR_HTTP_HEADERS_SENT.
ResJson(rs, obj) ==
  IF rs.headersSent THEN [rs EXCEPT !.threw = TRUE]
  ELSE [rs EXCEPT !.ctype = IF @ = "" THEN "application/json" ELSE @,
                  !.payload = <<obj>>, !.headersSent = TRUE, !.ended = TRUE]

\* res.sendStatus(code)
ResSendStatus(rs, code) == ResEnd(ResStatus(rs, code))

\* req.body?.id ?? null   (<<>> stands for null)
ReqId(body) == IF body = "withId" THEN <<7>> ELSE <<>>

\* The JSON-RPC error body of the catch block.
ProxyError(body) ==
  [jsonrpc |-> "2.0", id |-> ReqId(body), code |-> -32603,
   message |-> "Upstream proxy error"]

\* The catch block without res.status(502).
CatchNoStatus(rs, body) == ResJson(rs, ProxyError(body))

\* catch (err) { res.status(502).json({...}) }
CatchProxyError(rs, body) == ResJson(ResStatus(rs, 502), ProxyError(body))


-----------------------------------------------------------------------------
(* Routing: the middleware and routes of each app, in registration order.  *)
(* A route answers with a status, or hands the request to the relay        *)
(* handler ("relay") or to the SSE handler ("sse").                        *)

Answer(code) == [to |-> "status", status |-> code]
ToRelay      == [to |-> "relay", status |-> 0]
ToSse        == [to |-> "sse", status |-> 0]

UnderWellKnown(path) == Len(path) >= 1 /\ path[1] = ".well-known"

\* server.js: cors(), express.json(), /health, /.well-known, OPTIONS,
\* POST /sse, GET /, then Express's final 404.
\* cors() answers every OPTIONS request itself with 204; express.json()
\* fails a request whose JSON body does not parse with 400.
RouteBridge(method, path, body) ==
  IF method = "OPTIONS" THEN Answer(204)
  ELSE IF body = "bad" THEN Answer(400)
  ELSE IF method = "GET" /\ path = <<"health">> THEN Answer(200)
  ELSE IF UnderWellKnown(path) THEN Answer(404)
  ELSE IF method = "OPTIONS" THEN Answer(204)
  ELSE IF method = "POST" /\ path = SsePath THEN ToRelay
  ELSE IF method = "GET" /\ path = RootPath THEN Answer(200)
  ELSE Answer(404)

\* part_000:66-74: app.get('/sse'); Express answers OPTIONS on a routed
\* path with 200 and everything unmatched with 404.
RouteQuery(method, path, body) ==
  IF method = "GET" /\ path = SsePath THEN ToSse
  ELSE IF method = "OPTIONS" /\ path = SsePath THEN Answer(200)
  ELSE Answer(404)

\* The minimal variant's routes without app.options('*').
RouteMinimalNoOptions(method, path, body) ==
  IF method = "GET" /\ UnderWellKnown(path) /\ Len(path) >= 2 THEN Answer(404)
  ELSE IF method = "POST" THEN Answer(200)
  ELSE IF method = "GET" /\ path \in {SsePath, RootPath} THEN ToSse
  ELSE Answer(404)

\* part_000:100-124: header middleware, GET /.well-known/*, OPTIONS *,
\* POST *, GET /sse and GET / on handleSse.
RouteMinimal(method, path, body) ==
  IF method = "GET" /\ UnderWellKnown(path) /\ Len(path) >= 2 THEN Answer(404)
  ELSE IF method = "OPTIONS" THEN Answer(204)
  ELSE IF method = "POST" THEN Answer(200)
  ELSE IF method = "GET" /\ path \in {SsePath, RootPath} THEN ToSse
  ELSE Answer(404)

\* part_001:144-163: header middleware, GET /.well-known/:anything,
\* GET /sse and GET / on handleSse.
RouteProduct(method, path, body) ==
  IF method = "GET" /\ UnderWellKnown(path) /\ Len(path) = 2 THEN Answer(404)
  ELSE IF method = "GET" /\ path \in {SsePath, RootPath} THEN ToSse
  ELSE IF method = "OPTIONS"
          /\ (path \in {SsePath, RootPath} \/ (UnderWellKnown(path) /\ Len(path) = 2))
       THEN Answer(200)
  ELSE Answer(404)

Route(v, method, path, body) ==
  CASE v = "bridge"  -> RouteBridge(method, path, body)
    [] v = "query"   -> RouteQuery(method, path, body)
    [] v = "minimal" -> RouteMinimal(method, path, body)
    [] v = "product" -> RouteProduct(method, path, body)

-----------------------------------------------------------------------------
(* The relay handler of the bridge, app.post("/sse") of server.js.         *)

\* Lines 33-46: the headers and body are built and fetch is called.
StartFetch(r) ==
  /\ up' = [up EXCEPT ![r] = [NoUp EXCEPT !.state = "pending", !.calls = 1]]
  /\ pc' = [pc EXCEPT ![r] = "fetching"]
  /\ res' = [res EXCEPT ![r] = NewRes]

\* part_000:70-74, part_000:115-120, part_001:158-161: a transport is made
\* for the connection and the one shared McpServer is connected to it.
\* connect binds the server to the new transport; an SDK that refuses a
\* second connect rejects instead, and the async handler's rejection is
\* unhandled.
handleSse(r) ==
  \/ /\ transport' = r
     /\ pc' = [pc EXCEPT ![r] = "sse"]
     /\ res' = [res EXCEPT ![r] = [NewRes EXCEPT !.headersSent = TRUE,
                                                 !.ctype = "text/event-stream"]]
     /\ UNCHANGED unhandled
  \/ /\ transport # 0
     /\ pc' = [pc EXCEPT ![r] = "failed"]
     /\ res' = [res EXCEPT ![r] = NewRes]
     /\ unhandled' = unhandled \cup {r}
     /\ UNCHANGED transport

\* An inbound request arrives and runs through the app's routes up to the
\* handler's first suspension.
Arrive(r, method, path, body) ==
  /\ phase = "listening"
  /\ pc[r] = "idle"
  /\ req' = [req EXCEPT ![r] = [method |-> method, path |-> path, body |-> body]]
  /\ client' = [client EXCEPT ![r] = TRUE]
  /\ LET rt == Route(variant, method, path, body) IN
       CASE rt.to = "status" ->
              /\ res' = [res EXCEPT ![r] = ResSendStatus(NewRes, rt.status)]
              /\ pc' = [pc EXCEPT ![r] = "done"]
              /\ UNCHANGED <<up, unhandled, transport>>
         [] rt.to = "relay" ->
              /\ StartFetch(r)
              /\ UNCHANGED <<unhandled, transport>>
         [] rt.to = "sse" ->
              /\ handleSse(r)
              /\ UNCHANGED up
  /\ UNCHANGED <<variant, env, phase, registry, tool>>

\* A throw out of the catch block itself rejects the async handler.
Escaped(r, rs) == IF rs.threw THEN unhandled \cup {r} ELSE unhandled

\* Line 42 rejects (upstream unreachable): the catch block answers 502.
FetchReject(r) ==
  /\ pc[r] = "fetching"
  /\ up' = [up EXCEPT ![r].state = "rejected"]
  /\ res' = [res EXCEPT ![r] = CatchProxyError(@, req[r].body)]
  /\ unhandled' = Escaped(r, res'[r])
  /\ pc' = [pc EXCEPT ![r] = "done"]
  /\ UNCHANGED <<variant, env, phase, req, client, transport, registry, tool>>

\* Lines 49-56: status and allow-listed headers are mirrored.
MirrorHeaders(rs, status) == ResSetType(ResStatus(rs, status), "upstream")

\* Line 42 resolves with status st; hasBody says whether upstream.body is
\* set; hdrOk is FALSE when res.setHeader refuses a mirrored header value
\* and throws, after res.status(upstream.status) has run.
FetchResolve(r, st, hasBody, hdrOk) ==
  /\ pc[r] = "fetching"
  /\ IF ~hdrOk
       THEN /\ up' = [up EXCEPT ![r].state = "unused", ![r].status = st]
            /\ res' = [res EXCEPT ![r] = CatchProxyError(ResStatus(@, st), req[r].body)]
            /\ pc' = [pc EXCEPT ![r] = "done"]
       ELSE IF ~hasBody
       THEN /\ up' = [up EXCEPT ![r].state = "nobody", ![r].status = st]
            /\ res' = [res EXCEPT ![r] = ResEnd(MirrorHeaders(@, st))]
            /\ pc' = [pc EXCEPT ![r] = "done"]
       ELSE /\ up' = [up EXCEPT ![r].state = "open", ![r].status = st]
            /\ res' = [res EXCEPT ![r] = MirrorHeaders(@, st)]
            /\ pc' = [pc EXCEPT ![r] = "piping"]
  /\ unhandled' = Escaped(r, res'[r])
  /\ UNCHANGED <<variant, env, phase, req, client, transport, registry, tool>>

\* The upstream enqueues one more chunk on its body stream.
UpstreamEmit(r, c) ==
  /\ up[r].state = "open"
  /\ Len(up[r].emitted) < MaxChunks
  /\ up' = [up EXCEPT ![r].emitted = Append(@, c)]
  /\ UNCHANGED <<variant, env, phase, pc, req, res, client, unhandled, transport,
                 registry, tool>>

\* The upstream ends its body stream normally.
UpstreamClose(r) ==
  /\ up[r].state = "open"
  /\ up' = [up EXCEPT ![r].state = "closed"]
  /\ UNCHANGED <<variant, env, phase, pc, req, res, client, unhandled, transport,
                 registry, tool>>

\* The upstream body stream errors: chunks not yet read are discarded.
UpstreamError(r) ==
  /\ up[r].state = "open"
  /\ up' = [up EXCEPT ![r].state = "errored"]
  /\ UNCHANGED <<variant, env, phase, pc, req, res, client, unhandled, transport,
                 registry, tool>>

\* A sink that puts each chunk in front of what it wrote before.
SinkWriteFront(rs, chunk) ==
  [rs EXCEPT !.headersSent = TRUE, !.written = <<chunk>> \o @]

\* A sink whose close() does not end the response.
SinkCloseNoEnd(rs) == rs

\* pipeTo(...) with no .catch: the rejection goes unhandled.
PipeUncaught(r) ==
  /\ unhandled' = unhandled \cup {r}
  /\ UNCHANGED res

\* Lines 64-66: write(chunk) { res.write(chunk) }
SinkWrite(rs, chunk) == ResWrite(rs, chunk)

\* Lines 67-69: close() { res.end() }
SinkClose(rs) == ResEnd(rs)

\* Lines 70-72: abort() { res.end() }
SinkAbort(rs) == ResEnd(rs)

\* Line 74: the rejection of the pipeTo promise is taken by
\* .catch(() => res.end()).
PipeRejected(r) ==
  /\ res' = [res EXCEPT ![r] = ResEnd(@)]
  /\ UNCHANGED unhandled

\* pipeTo reads the next chunk of the body and hands it to the sink.
RelayChunk(r) ==
  /\ pc[r] = "piping"
  /\ up[r].state \in {"open", "closed"}
  /\ up[r].read < Len(up[r].emitted)
  /\ up' = [up EXCEPT ![r].read = @ + 1]
  /\ res' = [res EXCEPT ![r] = SinkWrite(@, up[r].emitted[up[r].read + 1])]
  /\ UNCHANGED <<variant, env, phase, pc, req, client, unhandled, transport,
                 registry, tool>>

\* The body is closed and drained: pipeTo closes the sink and resolves.
RelayClose(r) ==
  /\ pc[r] = "piping"
  /\ up[r].state = "closed"
  /\ up[r].read = Len(up[r].emitted)
  /\ res' = [res EXCEPT ![r] = SinkClose(@)]
  /\ pc' = [pc EXCEPT ![r] = "done"]
  /\ UNCHANGED <<variant, env, phase, req, up, client, unhandled, transport,
                 registry, tool>>

\* The body errored: pipeTo aborts the sink and then rejects.
RelayAbort(r) ==
  /\ pc[r] = "piping"
  /\ up[r].state = "errored"
  /\ res' = [res EXCEPT ![r] = SinkAbort(@)]
  /\ pc' = [pc EXCEPT ![r] = "rejected"]
  /\ UNCHANGED <<variant, env, phase, req, up, client, unhandled, transport,
                 registry, tool>>

\* The rejection of pipeTo is delivered.
RelayCatch(r) ==
  /\ pc[r] = "rejected"
  /\ PipeRejected(r)
  /\ pc' = [pc EXCEPT ![r] = "done"]
  /\ UNCHANGED <<variant, env, phase, req, up, client, transport, registry, tool>>

\* The client of r goes away.  No handler listens for it (no req.on("close"),
\* no AbortController), so nothing but the socket changes.
ClientDisconnect(r) ==
  /\ pc[r] # "idle"
  /\ client[r]
  /\ client' = [client EXCEPT ![r] = FALSE]
  /\ UNCHANGED <<variant, env, phase, pc, req, res, up, unhandled, transport,
                 registry, tool>>

-----------------------------------------------------------------------------
(* The bridge under POST /sse traffic.                                     *)

NoTool == [pc |-> "idle", name |-> "", calls |-> 0, result |-> <<>>, resp |-> <<>>]

InitCommon ==
  /\ pc = [r \in Reqs |-> "idle"]
  /\ req = [r \in Reqs |-> NoReq]
  /\ res = [r \in Reqs |-> NewRes]
  /\ up = [r \in Reqs |-> NoUp]
  /\ client = [r \in Reqs |-> FALSE]
  /\ unhandled = {}
  /\ transport = 0
  /\ tool = NoTool

\* server.js:6-13: PORT, TARGET_STREAM_URL and BEARER all have defaults, so
\* the bridge listens whatever the environment holds; it registers no tool.
Init ==
  /\ variant = "bridge"
  /\ env \in {{}, {"TARGET_STREAM_URL", "BEARER"}}
  /\ phase = "listening"
  /\ registry = {}
  /\ InitCommon

Next ==
  \/ \E r \in Solo, b \in Bodies : Arrive(r, "POST", SsePath, b)
  \/ \E r \in Solo : FetchReject(r)
  \/ \E r \in Solo, st \in UpStatuses, hasBody \in BOOLEAN, hdrOk \in BOOLEAN :
        FetchResolve(r, st, hasBody, hdrOk)
  \/ \E r \in Solo, c \in Chunks : UpstreamEmit(r, c)
  \/ \E r \in Solo : UpstreamClose(r)
  \/ \E r \in Solo : UpstreamError(r)
  \/ \E r \in Solo : RelayChunk(r)
  \/ \E r \in Solo : RelayClose(r)
  \/ \E r \in Solo : RelayAbort(r)
  \/ \E r \in Solo : RelayCatch(r)
  \/ \E r \in Solo : ClientDisconnect(r)

Spec == Init /\ [][Next]_vars

\* The steps of the relay are microtasks and stream callbacks of the event
\* loop: once enabled they run.  The upstream's own events get no fairness.
RelayFairness ==
  \A r \in Solo : /\ WF_vars(RelayChunk(r))
                  /\ WF_vars(RelayClose(r))
                  /\ WF_vars(RelayAbort(r))
                  /\ WF_vars(RelayCatch(r))

FairSpec == Spec /\ RelayFairness

-----------------------------------------------------------------------------
(* Startup, configuration and the tool registry of the four variants.      *)

Variants == {"bridge", "query", "minimal", "product"}

\* The environment values each variant reads.
EnvNames(v) ==
  CASE v = "bridge"  -> {"TARGET_STREAM_URL", "BEARER"}
    [] v = "query"   -> {"WC_URL", "WC_KEY", "WC_SECRET"}
    [] v = "minimal" -> {}
    [] v = "product" -> {"BASE_URL", "WOO_CONSUMER_KEY", "WOO_CONSUMER_SECRET"}

\* The values a variant reads with no default: its upstream calls are built
\* from them (base, authHeaders, withAuth; wcHeaders, wcGet, wcPut).
Uses(v) ==
  CASE v = "bridge"  -> {}
    [] v = "query"   -> {"WC_URL", "WC_KEY", "WC_SECRET"}
    [] v = "minimal" -> {}
    [] v = "product" -> {"BASE_URL", "WOO_CONSUMER_KEY", "WOO_CONSUMER_SECRET"}

\* part_001:11-14 is the only startup check: if (!BASE_URL || !CK || !CS)
\* process.exit(1).  The other variants check nothing.
ConfigCheck(v, e) ==
  v = "product" => {"BASE_URL", "WOO_CONSUMER_KEY", "WOO_CONSUMER_SECRET"} \subseteq e

\* The server.tool(...) registrations of each variant.
Tools(v) ==
  CASE v = "bridge"  -> {}
    [] v = "query"   -> {"ping", "list_categories"}
    [] v = "minimal" -> {"ping", "time"}
    [] v = "product" -> {"ping", "wc_search_products", "wc_get_product",
                         "wc_update_product"}

\* The module body runs: config check, tool registration, app.listen.
Start ==
  /\ phase = "starting"
  /\ IF ConfigCheck(variant, env)
       THEN phase' = "listening" /\ registry' = Tools(variant)
       ELSE phase' = "exited" /\ registry' = {}
  /\ UNCHANGED <<variant, env, pc, req, res, up, client, unhandled, transport, tool>>

-----------------------------------------------------------------------------
(* The upstream REST client and the tool handlers.                         *)
(* An upstream response is [status, json, body]: json says the content     *)
(* type is JSON, body is "text", "empty" or "unreadable" (reading it       *)
(* rejects).  A call yields a value or throws an error whose message is a  *)
(* sequence of tokens.                                                     *)

RestStatuses == {200, 302, 400, 404, 500}
BodyKinds == {"text", "empty", "unreadable"}

Value(tokens)   == [kind |-> "value", text |-> tokens]
Thrown(tokens)  == [kind |-> "error", text |-> tokens]
Content(tokens) == [kind |-> "content", text |-> tokens]

\* res.ok
Ok(status) == status >= 200 /\ status <= 299

\* res.statusText
StatusText(status) ==
  CASE status = 200 -> "OK"
    [] status = 302 -> "Found"
    [] status = 400 -> "Bad Request"
    [] status = 404 -> "Not Found"
    [] status = 500 -> "Internal Server Error"

\* await res.json(): rejects unless the body can be read and parses.
ResponseJson(resp) ==
  IF resp.body = "text" /\ resp.json THEN Value(<<"data">>)
  ELSE Thrown(<<"invalid json">>)

\* part_000:28-40
wc(resp) ==
  IF ~Ok(resp.status)
    THEN LET txt == IF resp.body = "text" THEN "body" ELSE ""
         IN Thrown(<<ToString(resp.status), StatusText(resp.status)>>
                   \o (IF txt # "" THEN <<" - ", txt>> ELSE <<>>))
  ELSE IF resp.json THEN ResponseJson(resp)
  ELSE Value(<<>>)

\* part_001:28-36: await res.text() sits inside the template of the error
\* message, so its rejection replaces the error being built.
wcGet(resp) ==
  IF ~Ok(resp.status)
    THEN IF resp.body = "unreadable" THEN Thrown(<<"terminated">>)
         ELSE Thrown(<<"Woo GET", "url", "->", ToString(resp.status),
                       IF resp.body = "text" THEN "body" ELSE "">>)
  ELSE ResponseJson(resp)

\* part_001:38-49
wcPut(resp) ==
  IF ~Ok(resp.status)
    THEN IF resp.body = "unreadable" THEN Thrown(<<"terminated">>)
         ELSE Thrown(<<"Woo PUT", "url", "->", ToString(resp.status),
                       IF resp.body = "text" THEN "body" ELSE "">>)
  ELSE ResponseJson(resp)

\* The tools that answer without the upstream client.
LocalTools == {"ping", "time"}

\* A ping handler that answers with another text.
PingEcho == Content(<<"ping">>)

\* The ping handlers: async () => ({ content: [{ type: 'text', text: 'pong' }] })
PingHandler == Content(<<"pong">>)

\* part_000:94-98
TimeHandler == Content(<<"iso-time">>)

\* The upstream client a tool handler awaits.
ClientCall(t, resp) ==
  CASE t = "list_categories"    -> wc(resp)
    [] t = "wc_search_products" -> wcGet(resp)
    [] t = "wc_get_product"     -> wcGet(resp)
    [] t = "wc_update_product"  -> wcPut(resp)

\* A handler after its await: an error of the client passes through, a
\* value is reshaped into one text content item.
HandlerResult(t, called) ==
  IF called.kind = "error" THEN called ELSE Content(<<"json", t>>)

\* `${process.env.WC_URL}/wp-json/wc/v3` with WC_URL unset is
\* "undefined/wp-json/wc/v3", which fetch cannot parse as a URL.
UrlParses == variant = "query" => "WC_URL" \in env

\* The server dispatches a tool call that came in over its transport.
InvokeTool(t) ==
  /\ phase = "listening"
  /\ transport # 0
  /\ t \in registry
  /\ tool.pc \in {"idle", "done"}
  /\ tool' = IF t \in LocalTools
               THEN [pc |-> "done", name |-> t, calls |-> 0, resp |-> <<>>,
                     result |-> <<IF t = "ping" THEN PingHandler ELSE TimeHandler>>]
               ELSE [pc |-> "awaiting", name |-> t, calls |-> 1, resp |-> <<>>,
                     result |-> <<>>]
  /\ UNCHANGED <<variant, env, phase, pc, req, res, up, client, unhandled,
                 transport, registry>>

\* The fetch of the upstream client rejects: unreachable, or no URL.
ToolFetchReject ==
  /\ tool.pc = "awaiting"
  /\ tool' = [tool EXCEPT !.pc = "done", !.result = <<Thrown(<<"fetch failed">>)>>]
  /\ UNCHANGED <<variant, env, phase, pc, req, res, up, client, unhandled,
                 transport, registry>>

\* The upstream answers the fetch of the upstream client.
ToolFetchRespond(status, json, body) ==
  /\ tool.pc = "awaiting"
  /\ UrlParses
  /\ LET resp == [status |-> status, json |-> json, body |-> body] IN
       tool' = [tool EXCEPT !.pc = "done", !.resp = <<resp>>,
                            !.result = <<HandlerResult(tool.name,
                                                       ClientCall(tool.name, resp))>>]
  /\ UNCHANGED <<variant, env, phase, pc, req, res, up, client, unhandled,
                 transport, registry>>

\* Every variant from process start, under SSE connections and tool calls.
InitTools ==
  /\ variant \in Variants
  /\ env \in SUBSET EnvNames(variant)
  /\ phase = "starting"
  /\ registry = {}
  /\ InitCommon

NextTools ==
  \/ Start
  \/ \E r \in Reqs : Arrive(r, "GET", SsePath, "none")
  \/ \E t \in UNION {Tools(v) : v \in Variants} : InvokeTool(t)
  \/ ToolFetchReject
  \/ \E status \in RestStatuses, json \in BOOLEAN, body \in BodyKinds :
        ToolFetchRespond(status, json, body)

SpecTools == InitTools /\ [][NextTools]_vars

\* Every variant, fully configured and listening, under arbitrary requests.
InitRoute ==
  /\ variant \in Variants
  /\ env = EnvNames(variant)
  /\ phase = "listening"
  /\ registry = Tools(variant)
  /\ InitCommon

NextRoute ==
  \E r \in Reqs, method \in Methods, path \in Paths, body \in Bodies :
     Arrive(r, method, path, body)

SpecRoute == InitRoute /\ [][NextRoute]_vars

\* Two concurrent relay requests; request r's upstream emits chunks that
\* carry r's own mark.
Mark(r) == IF r = 1 THEN "a" ELSE "b"

InitPair ==
  /\ variant = "bridge"
  /\ env = {}
  /\ phase = "listening"
  /\ registry = {}
  /\ InitCommon

NextPair ==
  \/ \E r \in Reqs : Arrive(r, "POST", SsePath, "withId")
  \/ \E r \in Reqs : FetchReject(r)
  \/ \E r \in Reqs, hasBody \in BOOLEAN : FetchResolve(r, 200, hasBody, TRUE)
  \/ \E r \in Reqs : UpstreamEmit(r, Mark(r))
  \/ \E r \in Reqs : UpstreamClose(r)
  \/ \E r \in Reqs : UpstreamError(r)
  \/ \E r \in Reqs : RelayChunk(r)
  \/ \E r \in Reqs : RelayClose(r)
  \/ \E r \in Reqs : RelayAbort(r)
  \/ \E r \in Reqs : RelayCatch(r)

SpecPair == InitPair /\ [][NextPair]_vars

-----------------------------------------------------------------------------
(* Properties.                                                             *)

IsPrefix(s, t) == Len(s) <= Len(t) /\ \A i \in 1..Len(s) : s[i] = t[i]

Range(s) == {s[i] : i \in 1..Len(s)}

\* Request r was taken by the relay handler app.post("/sse").
Relayed(r) == up[r].calls = 1

\* The upstream of r has finished or failed.
UpFinished(r) == up[r].state \in {"rejected", "unused", "nobody", "closed", "errored"}

\* The error body the catch block documents, for the request of r.
DocumentedError(r) ==
  [jsonrpc |-> "2.0", id |-> IF req[r].body = "withId" THEN <<7>> ELSE <<>>,
   code |-> -32603, message |-> "Upstream proxy error"]

Is502(r) == res[r].status = 502 /\ res[r].payload = <<DocumentedError(r)>>

IsRelay(r) ==
  /\ res[r].payload = <<>>
  /\ res[r].status = up[r].status
  /\ res[r].ctype = "upstream"

OneOutcome ==
  \A r \in Reqs : Relayed(r) =>
    /\ ~res[r].threw
    /\ res[r].payload # <<>> => Is502(r) /\ res[r].written = <<>> /\ res[r].ended
    /\ res[r].written # <<>> => IsRelay(r)
    /\ pc[r] = "done" => res[r].ended /\ (Is502(r) # IsRelay(r))

\* C1: every request the relay handler takes ends in exactly one terminal
\* outcome, the 502 error payload or an ended relayed response, never an
\* error body after relayed output, and once its upstream has finished or
\* failed its response is eventually ended.
C1_OneTerminalOutcome ==
  /\ []OneOutcome
  /\ \A r \in Reqs : UpFinished(r) ~> res[r].ended

\* An upstream that failed before its first chunk: the response is ended
\* as a relayed one, with no error body.
C1_Witness ==
  \E r \in Reqs : /\ pc[r] = "done" /\ up[r].state = "errored"
                  /\ res[r].written = <<>> /\ res[r].ended /\ IsRelay(r)

\* C2: what the relay writes is always a prefix of what the upstream
\* emitted, chunk by chunk as read; after a normal close it is the whole
\* sequence and the response is ended; nothing is relayed once it is ended.
C2_OrderedRelay ==
  \A r \in Reqs : Relayed(r) =>
    /\ IsPrefix(res[r].written, up[r].emitted)
    /\ Len(res[r].written) = up[r].read
    /\ (up[r].state = "closed" /\ pc[r] = "done") =>
          /\ res[r].written = up[r].emitted
          /\ res[r].ended /\ res[r].payload = <<>> /\ ~res[r].threw
    /\ res[r].ended => pc[r] \in {"done", "rejected"}

\* Two different chunks relayed, then a clean end.
C2_Witness ==
  \E r \in Reqs : /\ pc[r] = "done" /\ up[r].state = "closed"
                  /\ Len(res[r].written) >= 2
                  /\ res[r].written[1] # res[r].written[2]
                  /\ res[r].written = up[r].emitted

AbortHandled ==
  \A r \in Reqs : up[r].state = "errored" =>
    /\ IsPrefix(res[r].written, up[r].emitted)
    /\ r \notin unhandled
    /\ pc[r] \in {"rejected", "done"} => res[r].ended

\* C3: when the upstream stream errors after zero or more relayed chunks,
\* the response is still ended, what was relayed is a prefix of what the
\* upstream emitted, and no rejection is left unhandled.
C3_AbortEndsResponse ==
  /\ []AbortHandled
  /\ \A r \in Reqs : (up[r].state = "errored") ~> (res[r].ended /\ pc[r] = "done")

\* A stream that failed mid-way: one chunk relayed, one lost, response ended.
C3_Witness ==
  \E r \in Reqs : /\ pc[r] = "done" /\ up[r].state = "errored"
                  /\ Len(res[r].written) >= 1
                  /\ Len(res[r].written) < Len(up[r].emitted)
                  /\ res[r].ended

\* C4 as stated: every failure with no body byte sent yet gives the 502
\* error body, a stream failure before the first chunk included.
C4_Original ==
  \A r \in Reqs :
    (/\ pc[r] = "done"
     /\ up[r].state \in {"rejected", "unused", "errored"}
     /\ res[r].written = <<>>)
    => Is502(r)

\* C4 (amended): a failure before the relay of the body has started (the
\* fetch rejects, or mirroring the status and headers throws) gives status
\* 502 and the documented error body with the request's id or null, also
\* when the upstream status was already copied onto the response.
C4_Error502 ==
  \A r \in Reqs : up[r].state \in {"rejected", "unused"} =>
    /\ Is502(r)
    /\ res[r].ended /\ res[r].written = <<>> /\ ~res[r].threw

\* The failure came after the upstream status 200 was copied; id echoed.
C4_Witness ==
  \E r \in Reqs : /\ up[r].state = "unused" /\ up[r].status = 200
                  /\ req[r].body = "withId"
                  /\ Is502(r)

ProbeVariants == {"bridge", "minimal"}

IsProbe(r) == UnderWellKnown(req[r].path) \/ req[r].method = "OPTIONS"

NoHandler(r) ==
  pc[r] = "done" /\ res[r].ended /\ up[r].calls = 0 /\ transport # r

\* C5 as stated: every request under /.well-known/ gets 404 and every
\* OPTIONS request gets 204, and neither reaches the relay or SSE handler.
C5_Original ==
  \A r \in Reqs : (pc[r] # "idle" /\ variant \in ProbeVariants) =>
    /\ UnderWellKnown(req[r].path) => res[r].status = 404
    /\ req[r].method = "OPTIONS" => res[r].status = 204
    /\ IsProbe(r) => NoHandler(r)

\* C5 (amended): in the bridge and the minimal variant every OPTIONS request
\* gets 204, also under /.well-known/; a request under /.well-known/ that is
\* not OPTIONS gets 404 in the bridge unless its JSON body fails to parse,
\* and a GET under /.well-known/ gets 404 in the minimal variant; in every
\* variant no such request reaches the relay or SSE handler or causes an
\* upstream call.
C5_ProbesAnswered ==
  \A r \in Reqs : pc[r] # "idle" =>
    /\ (variant \in ProbeVariants /\ req[r].method = "OPTIONS")
          => res[r].status = 204
    /\ (/\ variant = "bridge" /\ UnderWellKnown(req[r].path)
        /\ req[r].method # "OPTIONS" /\ req[r].body # "bad")
          => res[r].status = 404
    /\ (variant = "minimal" /\ UnderWellKnown(req[r].path) /\ req[r].method = "GET")
          => res[r].status = 404
    /\ IsProbe(r) => NoHandler(r)

\* OPTIONS to a /.well-known/ path in the minimal variant, answered 204.
C5_Witness ==
  \E r \in Reqs : /\ variant = "minimal" /\ req[r].method = "OPTIONS"
                  /\ UnderWellKnown(req[r].path)
                  /\ res[r].status = 204 /\ NoHandler(r)

\* C6: once the client of a relay request is gone, a fetch still pending
\* for it does not go on to open a stream and no further chunk is read from
\* its upstream stream.
C6_AbortOnDisconnect ==
  [][\A r \in Reqs : (Relayed(r) /\ ~client[r]) =>
        /\ up'[r].read = up[r].read
        /\ up[r].state = "pending" => up'[r].state # "open"]_vars

\* C7: no variant listens, or calls its upstream, with a configuration
\* value it needs missing.
C7_FailFast ==
  /\ phase = "listening" => Uses(variant) \subseteq env
  /\ tool.calls > 0 => Uses(variant) \subseteq env

\* C8 as stated: in every variant that registers tools, once startup has
\* run ping is available, whatever is configured, and answers "pong"
\* without an upstream call.
C8_Original ==
  /\ (Tools(variant) # {} /\ phase # "starting")
        => (phase = "listening" /\ "ping" \in registry)
  /\ (tool.pc = "done" /\ tool.name = "ping")
        => (tool.result = <<[kind |-> "content", text |-> <<"pong">>]>>
            /\ tool.calls = 0)

\* C8 (amended): in every variant that registers tools, a listening server
\* has ping registered and ping answers the one text item "pong" with no
\* upstream call; the only such server that does not come to listen is the
\* product variant started with a configuration value missing.
C8_PingPong ==
  /\ (Tools(variant) # {} /\ phase = "listening") => "ping" \in registry
  /\ (tool.pc = "done" /\ tool.name = "ping")
        => (tool.result = <<[kind |-> "content", text |-> <<"pong">>]>>
            /\ tool.calls = 0 /\ tool.resp = <<>>)
  /\ (Tools(variant) # {} /\ phase = "exited")
        => (variant = "product" /\ ~(Uses(variant) \subseteq env))

\* The query variant with nothing configured has answered ping.
C8_Witness ==
  /\ variant = "query" /\ env = {}
  /\ tool.pc = "done" /\ tool.name = "ping"
  /\ tool.result = <<[kind |-> "content", text |-> <<"pong">>]>>

\* C9: an upstream answer of status 400 or more makes the call fail with an
\* error whose message holds the status code; no content is built from it
\* and the request is made once.
C9_StatusInError ==
  (tool.pc = "done" /\ tool.resp # <<>> /\ tool.resp[1].status >= 400) =>
    /\ tool.result[1].kind = "error"
    /\ ToString(tool.resp[1].status) \in Range(tool.result[1].text)
    /\ tool.calls = 1

\* C10: a relay request only ever carries chunks of its own upstream, and
\* every open SSE session is still the one the shared server is bound to.
C10_NoInterference ==
  /\ \A r \in Reqs : Relayed(r) => IsPrefix(res[r].written, up[r].emitted)
  /\ \A r \in Reqs : pc[r] = "sse" => transport = r

\* The bridge half of C10, under two concurrent relay requests.
BridgeIsolation ==
  \A r \in Reqs : Relayed(r) =>
    /\ IsPrefix(res[r].written, up[r].emitted)
    /\ Range(res[r].written) \subseteq {Mark(r)}
    /\ pc[r] = "done" => res[r].ended

=============================================================================
